---- MODULE Spec2Model ----
(***************************************************************************)
(* AsyncGetAPI (src/Services.py): a pool of asyncio workers draining one   *)
(* queue of urls, with a per-url retry loop and an optional request quota. *)
(* One action is one run of a coroutine between two suspension points of   *)
(* the event loop.                                                         *)
(***************************************************************************)
EXTENDS Integers, Sequences, FiniteSets, TLC

\* ---- bounds of the model -------------------------------------------------
MaxUrls == 2        \* longest url_list under Spec
MaxUrlsOk == 3      \* longest url_list under SpecOk (transport never raises)
MaxWorkers == 2     \* largest max_workers argument
MaxQuota == 2       \* largest max_requests argument
MaxCalls == 2       \* number of AsyncGetAPI instances constructed in a row
MaxLocations == 2   \* longest list of locations of PickPoint and OpenWeather

\* ---- program constants ---------------------------------------------------
MaxTries == 10      \* for tries in range(10)

Urls == {"url1", "url2"}

\* a descriptor that is no url: session.get raises on it
BadUrl == "not a url"

\* max_requests is None or an integer: None is <<>>, the integer k is <<k>>
None == <<>>

VARIABLES
    url_list,        \* self.url_list
    max_workers,     \* the max_workers argument
    max_treads,      \* self.max_treads
    max_requests,    \* self.max_requests
    requests_count,  \* self.requests_count
    results,         \* self.results: url -> decoded payload
    queue,           \* asyncio.Queue: the urls not yet taken
    unfinished,      \* asyncio.Queue._unfinished_tasks
    workers,         \* the worker tasks: position, url, tries
    main_pc,         \* position of main()
    status,          \* history: state of each occurrence of url_list
    attempts,        \* history: attempts issued for each occurrence
    window,          \* history: attempts issued since the last pause/reset
    pauses,          \* history: number of time.sleep(60) pauses
    calls,           \* history: number of AsyncGetAPI instances constructed
    prev_results,    \* history: the results of the instance before this one
    caller,          \* the class under construction around the fetch
    locations,       \* PickPoint / OpenWeather: self.locations
    urls_list,       \* PickPoint / OpenWeather: self.urls_list
    table,           \* PickPoint / OpenWeather: AsyncGetAPI(...).results
    sorted_results,  \* PickPoint / OpenWeather: self.results
    cities,          \* WeatherAnalysis: self._cities
    max_temp,        \* WeatherAnalysis: the value of _find_max_temp()
    all_hotels,      \* WeatherAnalysis: the rows of the hotels DataFrame
    hotels_counter   \* WeatherAnalysis: self._hotels_counter

\* the state of one AsyncGetAPI instance and its history
fetch == <<url_list, max_workers, max_treads, max_requests, requests_count,
           results, queue, unfinished, workers, main_pc, status, attempts,
           window, pauses>>

\* what lives outside one AsyncGetAPI instance
outer == <<calls, prev_results, caller, locations, urls_list, table,
           sorted_results, cities, max_temp, all_hotels, hotels_counter>>

vars == <<fetch, outer>>

\* an attribute that is not set yet, set to a value, or left unset by an error
NotSet == [state |-> "not set"]

Value(v) == [state |-> "set", value |-> v]

Raised(e) == [state |-> "raised", error |-> e]

Max(a, b) == IF a >= b THEN a ELSE b

Min(a, b) == IF a <= b THEN a ELSE b

Range(s) == {s[i] : i \in DOMAIN s}

SeqsUpTo(S, n) == UNION {[1..k -> S] : k \in 0..n}

\* the url lists of at most n urls, up to renaming of the urls: the first url
\* of a list is "url1"
UrlLists(n) == {s \in SeqsUpTo(Urls, n) : s = <<>> \/ s[1] = "url1"}

\* the url lists of at most n descriptors with a malformed one among them
BadLists(n) == {s \in SeqsUpTo({"url1", BadUrl}, n) : BadUrl \in Range(s)}

\* session.get(url) can be answered
WellFormed(u) == u \in Urls

\* the body a successful attempt number k on url u decodes to
Payload(u, k) == <<u, k>>

\* the JSON body of a server-error response (status 5xx) to attempt k on url u
ErrorBody(u, k) == <<u, k, "server error">>

IsErrorBody(body) == Len(body) = 3

\* self.max_treads = max(max_workers, len(url_list))
Threads(mw, ul) == Max(mw, Len(ul))

\* for tries in range(10): another try follows try t
MoreTriesOneMore(t) == t + 1 <= MaxTries

MoreTries(t) == t + 1 < MaxTries

\* the quota test with > in place of ==
ExceededLate(cnt, maxr) == maxr # None /\ cnt > maxr[1]

\* if self.requests_count == self.max_requests
Exceeded(cnt, maxr) == maxr = <<cnt>>

\* the reset and the increment exclude each other
GateResetOnly(cnt, maxr) == IF Exceeded(cnt, maxr) THEN 0 ELSE cnt + 1

\* the gate of one attempt: optional pause and reset, then the increment
Gate(cnt, maxr) == (IF Exceeded(cnt, maxr) THEN 0 ELSE cnt) + 1

\* queue.task_done()
TaskDone(unf) == unf - 1

\* main goes on without awaiting queue.join()
JoinNotAwaited(unf, q) == TRUE

\* main goes on as soon as the queue is empty
JoinOnEmptyQueue(unf, q) == q = <<>>

\* queue.join() is released
JoinReleased(unf, q) == unf = 0

\* the body is assigned to a copy: nothing is stored
StoreLocal(res, u, body) == res

\* the table is replaced by the new entry
StoreReplace(res, u, body) == [d \in {u} |-> body]

\* an existing entry is kept (setdefault)
StoreFirst(res, u, body) == [d \in DOMAIN res \cup {u} |-> IF d \in DOMAIN res THEN res[d] ELSE body]

\* self.results[url] = await response.json()
Store(res, u, body) == [d \in DOMAIN res \cup {u} |-> IF d = u THEN body ELSE res[d]]

\* the exception leaves fetch and ends the worker task
OnExceptionRaise(wk) == [wk EXCEPT !.pc = "raised"]

\* except: await asyncio.sleep(1)
OnException(wk) == [wk EXCEPT !.pc = "sleep"]

IdleWorker(p) == [pc |-> p, url |-> "", tries |-> 0, item |-> 0, cancel |-> FALSE]

\* no caller object, no earlier instance
OuterIdle ==
    /\ calls = 1
    /\ prev_results = <<>>
    /\ caller = "AsyncGetAPI"
    /\ locations = <<>>
    /\ urls_list = <<>>
    /\ table = <<>>
    /\ sorted_results = NotSet
    /\ cities = <<>>
    /\ max_temp = NotSet
    /\ all_hotels = <<>>
    /\ hotels_counter = NotSet

\* AsyncGetAPI(url_list, max_workers, max_requests) for a url_list of lists
InitOn(lists) ==
    /\ OuterIdle
    /\ url_list \in lists
    /\ max_workers \in {1, MaxWorkers}
    /\ max_requests \in {None} \cup {<<k>> : k \in 1..MaxQuota}
    /\ max_treads = Threads(max_workers, url_list)
    /\ requests_count = 0
    /\ results = <<>>
    /\ queue = <<>>
    /\ unfinished = 0
    /\ workers = <<>>
    /\ main_pc = "start"
    /\ status = [i \in DOMAIN url_list |-> "Pending"]
    /\ attempts = [i \in DOMAIN url_list |-> 0]
    /\ window = 0
    /\ pauses = 0

InitWith(maxLen) == InitOn(UrlLists(maxLen))

Init == InitWith(MaxUrls)

InitOk == InitWith(MaxUrlsOk)

\* a pause uses up a try: after the pause the request carries the next try
IssueAttemptPauseSkips(w, u, t, i, q, unf, st) ==
    /\ requests_count' = Gate(requests_count, max_requests)
    /\ pauses' = IF Exceeded(requests_count, max_requests) THEN pauses + 1 ELSE pauses
    /\ window' = (IF Exceeded(requests_count, max_requests) THEN 0 ELSE window) + 1
    /\ workers' = [workers EXCEPT ![w] =
                     [pc |-> "request", url |-> u,
                      tries |-> IF Exceeded(requests_count, max_requests) THEN t + 1 ELSE t,
                      item |-> i, cancel |-> @.cancel]]
    /\ attempts' = [attempts EXCEPT ![i] = @ + 1]
    /\ status' = [st EXCEPT ![i] = "Attempting"]
    /\ queue' = q
    /\ unfinished' = unf

\* the pause yields to the event loop (asyncio.sleep): the worker resets the
\* counter and is suspended before it has issued its request
IssueAttemptPauseYields(w, u, t, i, q, unf, st) ==
    IF Exceeded(requests_count, max_requests)
    THEN /\ requests_count' = 0
         /\ pauses' = pauses + 1
         /\ window' = 0
         /\ workers' = [workers EXCEPT ![w] =
                          [pc |-> "sleep", url |-> u, tries |-> t - 1, item |-> i,
                           cancel |-> @.cancel]]
         /\ attempts' = attempts
         /\ status' = st
         /\ queue' = q
         /\ unfinished' = unf
    ELSE /\ requests_count' = requests_count + 1
         /\ pauses' = pauses
         /\ window' = window + 1
         /\ workers' = [workers EXCEPT ![w] =
                          [pc |-> "request", url |-> u, tries |-> t, item |-> i,
                           cancel |-> @.cancel]]
         /\ attempts' = [attempts EXCEPT ![i] = @ + 1]
         /\ status' = [st EXCEPT ![i] = "Attempting"]
         /\ queue' = q
         /\ unfinished' = unf

\* only the first try of a url goes through the gate: a retry is not counted
IssueAttemptCountsFirstTry(w, u, t, i, q, unf, st) ==
    /\ requests_count' = IF t = 0 THEN Gate(requests_count, max_requests) ELSE requests_count
    /\ pauses' = IF t = 0 /\ Exceeded(requests_count, max_requests) THEN pauses + 1 ELSE pauses
    /\ window' = (IF t = 0 /\ Exceeded(requests_count, max_requests) THEN 0 ELSE window) + 1
    /\ workers' = [workers EXCEPT ![w] =
                     [pc |-> "request", url |-> u, tries |-> t, item |-> i,
                      cancel |-> @.cancel]]
    /\ attempts' = [attempts EXCEPT ![i] = @ + 1]
    /\ status' = [st EXCEPT ![i] = "Attempting"]
    /\ queue' = q
    /\ unfinished' = unf

\* one pass of the loop body of fetch up to the suspension in session.get
IssueAttempt(w, u, t, i, q, unf, st) ==
    /\ requests_count' = Gate(requests_count, max_requests)
    /\ pauses' = IF Exceeded(requests_count, max_requests) THEN pauses + 1 ELSE pauses
    /\ window' = (IF Exceeded(requests_count, max_requests) THEN 0 ELSE window) + 1
    /\ workers' = [workers EXCEPT ![w] =
                     [pc |-> "request", url |-> u, tries |-> t, item |-> i,
                      cancel |-> @.cancel]]
    /\ attempts' = [attempts EXCEPT ![i] = @ + 1]
    /\ status' = [st EXCEPT ![i] = "Attempting"]
    /\ queue' = q
    /\ unfinished' = unf

\* the head of the queue is read and left in the queue
TakeNextPeek(w, q, unf, st) ==
    IF q # <<>>
    THEN IssueAttempt(w, Head(q), 0, Len(url_list) - Len(q) + 1, q, unf, st)
    ELSE /\ workers' = [workers EXCEPT ![w] = [IdleWorker("get") EXCEPT !.cancel = workers[w].cancel]]
         /\ queue' = q
         /\ unfinished' = unf
         /\ status' = st
         /\ UNCHANGED <<requests_count, pauses, window, attempts>>

\* url = await queue.get(), then fetch(url) up to its first suspension;
\* on an empty queue the worker blocks in get()
TakeNext(w, q, unf, st) ==
    IF q # <<>>
    THEN IssueAttempt(w, Head(q), 0, Len(url_list) - Len(q) + 1, Tail(q), unf, st)
    ELSE /\ workers' = [workers EXCEPT ![w] = [IdleWorker("get") EXCEPT !.cancel = workers[w].cancel]]
         /\ queue' = q
         /\ unfinished' = unf
         /\ status' = st
         /\ UNCHANGED <<requests_count, pauses, window, attempts>>

\* main(): fill the queue, create the workers, await queue.join()
MainStart ==
    /\ main_pc = "start"
    /\ queue' = url_list
    /\ unfinished' = Len(url_list)
    /\ IF JoinReleased(Len(url_list), url_list)
       THEN /\ workers' = [w \in 1..max_treads |-> [IdleWorker("new") EXCEPT !.cancel = TRUE]]
            /\ main_pc' = "gather"
       ELSE /\ workers' = [w \in 1..max_treads |-> IdleWorker("new")]
            /\ main_pc' = "join"
    /\ UNCHANGED outer
    /\ UNCHANGED <<url_list, max_workers, max_treads, max_requests, requests_count,
                   results, status, attempts, window, pauses>>

\* main(): queue.join() returns, every worker is cancelled, await gather
MainCancel ==
    /\ main_pc = "join"
    /\ JoinReleased(unfinished, queue)
    /\ workers' = [w \in DOMAIN workers |-> [workers[w] EXCEPT !.cancel = TRUE]]
    /\ main_pc' = "gather"
    /\ UNCHANGED outer
    /\ UNCHANGED <<url_list, max_workers, max_treads, max_requests, requests_count,
                   results, queue, unfinished, status, attempts, window, pauses>>

GatherNotAwaited(ws) == TRUE

\* asyncio.gather(*workers) is done once every worker task has ended
Gathered(ws) == \A w \in DOMAIN ws : ws[w].pc = "cancelled"

\* main(): gather returns once every worker task has ended
MainReturn ==
    /\ main_pc = "gather"
    /\ Gathered(workers)
    /\ main_pc' = "done"
    /\ UNCHANGED outer
    /\ UNCHANGED <<url_list, max_workers, max_treads, max_requests, requests_count,
                   results, queue, unfinished, workers, status, attempts, window, pauses>>

\* every task made by create_task has had its first run: the tasks are ready
\* as soon as main suspends in queue.join(), and the event loop runs all of
\* them before it delivers a response or a timer
AllStarted(ws) == \A v \in DOMAIN ws : ws[v].pc # "new"

\* a new worker task runs for the first time; the event loop starts the tasks
\* in the order create_task made them
WorkerStart(w) ==
    /\ w \in DOMAIN workers
    /\ workers[w].pc = "new"
    /\ \A v \in 1..(w - 1) : workers[v].pc # "new"
    /\ ~workers[w].cancel
    /\ TakeNext(w, queue, unfinished, status)
    /\ UNCHANGED outer
    /\ UNCHANGED <<url_list, max_workers, max_treads, max_requests, results, main_pc>>

\* session.get and response.json complete: store, break, task_done, next get
Respond(w) ==
    /\ w \in DOMAIN workers
    /\ workers[w].pc = "request"
    /\ ~workers[w].cancel
    /\ AllStarted(workers)
    /\ WellFormed(workers[w].url)
    /\ results' = Store(results, workers[w].url,
                        Payload(workers[w].url, workers[w].tries + 1))
    /\ TakeNext(w, queue, TaskDone(unfinished),
                [status EXCEPT ![workers[w].item] = "Succeeded"])
    /\ UNCHANGED outer
    /\ UNCHANGED <<url_list, max_workers, max_treads, max_requests, main_pc>>

\* session.get returns a response with a server-error status and a JSON body:
\* no status is tested, response.json() decodes the body: store, break,
\* task_done, next get
RespondError(w) ==
    /\ w \in DOMAIN workers
    /\ workers[w].pc = "request"
    /\ ~workers[w].cancel
    /\ AllStarted(workers)
    /\ WellFormed(workers[w].url)
    /\ results' = Store(results, workers[w].url,
                        ErrorBody(workers[w].url, workers[w].tries + 1))
    /\ TakeNext(w, queue, TaskDone(unfinished),
                [status EXCEPT ![workers[w].item] = "Succeeded"])
    /\ UNCHANGED outer
    /\ UNCHANGED <<url_list, max_workers, max_treads, max_requests, main_pc>>

\* session.get or response.json raises (timeout, connection error, bad body)
Fail(w) ==
    /\ w \in DOMAIN workers
    /\ workers[w].pc = "request"
    /\ ~workers[w].cancel
    /\ workers' = [workers EXCEPT ![w] = OnException(@)]
    /\ status' = [status EXCEPT ![workers[w].item] = "Retry"]
    /\ UNCHANGED outer
    /\ UNCHANGED <<url_list, max_workers, max_treads, max_requests, requests_count,
                   results, queue, unfinished, main_pc, attempts, window, pauses>>

\* asyncio.sleep(1) ends: the next try, or the loop is over and fetch returns
Wake(w) ==
    /\ w \in DOMAIN workers
    /\ workers[w].pc = "sleep"
    /\ ~workers[w].cancel
    /\ AllStarted(workers)
    /\ IF MoreTries(workers[w].tries)
       THEN IssueAttempt(w, workers[w].url, workers[w].tries + 1, workers[w].item,
                         queue, unfinished, status)
       ELSE TakeNext(w, queue, TaskDone(unfinished),
                     [status EXCEPT ![workers[w].item] = "Exhausted"])
    /\ UNCHANGED outer
    /\ UNCHANGED <<url_list, max_workers, max_treads, max_requests, results, main_pc>>

\* a cancelled task is resumed with CancelledError
WorkerCancelled(w) ==
    /\ w \in DOMAIN workers
    /\ workers[w].cancel
    /\ workers[w].pc # "cancelled"
    /\ workers' = [workers EXCEPT ![w] =
                     IF @.pc \in {"new", "get"}
                     THEN IdleWorker("cancelled")
                     ELSE [OnException(@) EXCEPT !.cancel = FALSE]]
    /\ UNCHANGED outer
    /\ UNCHANGED <<url_list, max_workers, max_treads, max_requests, requests_count,
                   results, queue, unfinished, main_pc, status, attempts, window, pauses>>

WorkerIds == 1..Max(Max(MaxWorkers, 5), Max(MaxUrls, MaxUrlsOk))

Next ==
    \/ MainStart
    \/ MainCancel
    \/ MainReturn
    \/ \E w \in WorkerIds : WorkerStart(w)
    \/ \E w \in WorkerIds : Respond(w)
    \/ \E w \in WorkerIds : Fail(w)
    \/ \E w \in WorkerIds : Wake(w)
    \/ \E w \in WorkerIds : WorkerCancelled(w)

Spec == Init /\ [][Next]_vars

\* the transport of tests/test_asyncgetapi.py: no attempt raises
NextOk ==
    \/ MainStart
    \/ MainCancel
    \/ MainReturn
    \/ \E w \in WorkerIds : WorkerStart(w)
    \/ \E w \in WorkerIds : Respond(w)
    \/ \E w \in WorkerIds : WorkerCancelled(w)

SpecOk == InitOk /\ [][NextOk]_vars

\* the counter and the table are shared by the instances (class attributes)
SecondCallSharedState ==
    /\ main_pc = "done"
    /\ calls < MaxCalls
    /\ calls' = calls + 1
    /\ prev_results' = results
    /\ queue' = <<>>
    /\ unfinished' = 0
    /\ workers' = <<>>
    /\ main_pc' = "start"
    /\ status' = [i \in DOMAIN url_list |-> "Pending"]
    /\ attempts' = [i \in DOMAIN url_list |-> 0]
    /\ window' = 0
    /\ pauses' = 0
    /\ UNCHANGED <<requests_count, results>>
    /\ UNCHANGED <<url_list, max_workers, max_treads, max_requests, caller, locations,
                   urls_list, table, sorted_results, cities, max_temp, all_hotels,
                   hotels_counter>>

\* AsyncGetAPI(url_list, max_workers, max_requests) is constructed again with
\* the same arguments once the instance before it has returned
SecondCall ==
    /\ main_pc = "done"
    /\ calls < MaxCalls
    /\ calls' = calls + 1
    /\ prev_results' = results
    /\ requests_count' = 0
    /\ results' = <<>>
    /\ queue' = <<>>
    /\ unfinished' = 0
    /\ workers' = <<>>
    /\ main_pc' = "start"
    /\ status' = [i \in DOMAIN url_list |-> "Pending"]
    /\ attempts' = [i \in DOMAIN url_list |-> 0]
    /\ window' = 0
    /\ pauses' = 0
    /\ UNCHANGED <<url_list, max_workers, max_treads, max_requests, caller, locations,
                   urls_list, table, sorted_results, cities, max_temp, all_hotels,
                   hotels_counter>>

\* the never-raising transport, the call repeated
NextTwice == NextOk \/ SecondCall

SpecTwice == InitOk /\ [][NextTwice]_vars

\* 5 urls, a quota of 2 requests, the never-raising transport
InitQuota ==
    /\ InitOn({s \in [1..5 -> Urls] : s[1] = "url1"})
    /\ max_requests = <<2>>

SpecQuota == InitQuota /\ [][NextOk]_vars

\* ---- PickPoint and OpenWeather: the callers of AsyncGetAPI -------------------
\* a Python dict is the sequence of its <<key, value>> pairs in insertion order
DictKeys(d) == [i \in DOMAIN d |-> d[i][1]]

DictHas(d, k) == \E i \in DOMAIN d : d[i][1] = k

DictGet(d, k) == d[CHOOSE i \in DOMAIN d : d[i][1] = k][2]

Coords == {"c1", "c2"}

\* the lists of at most n locations, up to renaming: the first one is "c1"
LocationLists(n) == {s \in SeqsUpTo(Coords, n) : s = <<>> \/ s[1] = "c1"}

Reverse(s) == [i \in DOMAIN s |-> s[Len(s) + 1 - i]]

RECURSIVE Dedup(_)
Dedup(s) ==
    IF s = <<>> THEN <<>>
    ELSE LET r == Dedup(SubSeq(s, 1, Len(s) - 1))
         IN  IF s[Len(s)] \in Range(r) THEN r ELSE Append(r, s[Len(s)])

\* the dict with the keys of order that are not in missing, in that order
DictOf(order, missing, val) ==
    LET keys == SelectSeq(Dedup(order), LAMBDA k : k \notin missing)
    IN  [i \in DOMAIN keys |-> <<keys[i], val[keys[i]]>>]

\* [results[url] for url in self.urls_list]
LookupPresent(tbl, urls) ==
    LET present == SelectSeq(urls, LAMBDA u : DictHas(tbl, u))
    IN  Value([i \in DOMAIN present |-> DictGet(tbl, present[i])])

LookupAll(tbl, urls) ==
    IF \A i \in DOMAIN urls : DictHas(tbl, urls[i])
    THEN Value([i \in DOMAIN urls |-> DictGet(tbl, urls[i])])
    ELSE Raised("KeyError")

\* PickPoint.create_api_ulr_list: one url per location
PickPointUrls(locs) == [i \in DOMAIN locs |-> <<"reverse", locs[i]>>]

\* the bodies PickPoint can find in the table: two addresses and an error body
PickPointBodies ==
    {[display_name |-> "data1"], [display_name |-> "data2"], [error |-> "Unauthorized"]}

\* the addresses in the order of the table's own keys
PickPointSortByTable(tbl, urls) ==
    IF \A i \in DOMAIN urls :
           DictHas(tbl, urls[i]) /\ "display_name" \in DOMAIN DictGet(tbl, urls[i])
    THEN Value([i \in DOMAIN tbl |-> tbl[i][2].display_name])
    ELSE Raised("KeyError")

\* PickPoint.sort_results
PickPointSortResults(tbl, urls) ==
    LET found == LookupAll(tbl, urls)
    IN  IF found.state = "raised" THEN found
        ELSE IF \A i \in DOMAIN found.value : "display_name" \in DOMAIN found.value[i]
        THEN Value([i \in DOMAIN found.value |-> found.value[i].display_name])
        ELSE Raised("KeyError")

FetchIdle ==
    /\ url_list = <<>>
    /\ max_workers = 1
    /\ max_requests = None
    /\ max_treads = 1
    /\ requests_count = 0
    /\ results = <<>>
    /\ queue = <<>>
    /\ unfinished = 0
    /\ workers = <<>>
    /\ main_pc = "done"
    /\ status = <<>>
    /\ attempts = <<>>
    /\ window = 0
    /\ pauses = 0

\* PickPoint(locations, threads) up to the return of AsyncGetAPI(...).results
InitPickPoint ==
    /\ caller = "PickPoint"
    /\ locations \in LocationLists(MaxLocations)
    /\ urls_list = PickPointUrls(locations)
    /\ \E order \in {urls_list, Reverse(urls_list)} :
       \E missing \in SUBSET Range(urls_list) :
       \E body \in [Range(urls_list) -> PickPointBodies] :
           table = DictOf(order, missing, body)
    /\ sorted_results = NotSet

\* PickPoint.__init__: self.results = self.sort_results(...)
PickPointInit ==
    /\ caller = "PickPoint"
    /\ sorted_results = NotSet
    /\ sorted_results' = PickPointSortResults(table, urls_list)
    /\ UNCHANGED <<fetch, calls, prev_results, caller, locations, urls_list, table,
                   cities, max_temp, all_hotels, hotels_counter>>

\* OpenWeather.create_api_ulr_list: per location the onecall url, then the
\* timemachine urls of the 5 days before
OpenWeatherUrlsOf(c) ==
    <<<<"onecall", c>>>> \o [day \in 1..5 |-> <<"timemachine", c, day>>]

RECURSIVE OpenWeatherUrls(_)
OpenWeatherUrls(locs) ==
    IF locs = <<>> THEN <<>>
    ELSE OpenWeatherUrls(SubSeq(locs, 1, Len(locs) - 1)) \o OpenWeatherUrlsOf(locs[Len(locs)])

\* onecall bodies: 7 daily entries, in ascending or in descending order of dt
Forecasts ==
    {[daily |-> [d \in 1..7 |-> [dt |-> 10 + d, temp |-> [min |-> d, max |-> d + 10]]]],
     [daily |-> [d \in 1..7 |-> [dt |-> 18 - d, temp |-> [min |-> 0 - d, max |-> 2 * d]]]]}

\* timemachine bodies: the dt of the day and its hourly temperatures
Historicals ==
    {[current |-> [dt |-> 5], hourly |-> <<[temp |-> 3], [temp |-> 1], [temp |-> 2]>>],
     [current |-> [dt |-> 12], hourly |-> <<[temp |-> 7]>>]}

SetMin(S) == CHOOSE x \in S : \A y \in S : x <= y

SetMax(S) == CHOOSE x \in S : \A y \in S : x >= y

\* the list is left as it was built
SortSkipped(s) == s

\* sorted(city_result, key=lambda x: x[0]): the stable sort by the timestamp
RECURSIVE SortByDt(_)
SortByDt(s) ==
    IF s = <<>> THEN <<>>
    ELSE LET r == SortByDt(SubSeq(s, 1, Len(s) - 1))
             x == s[Len(s)]
             n == Cardinality({i \in DOMAIN r : r[i][1] <= x[1]})
         IN  SubSeq(r, 1, n) \o <<x>> \o SubSeq(r, n + 1, Len(r))

\* the error the loop over the historical days raises at day d, or ""
DayError(cw, d) ==
    IF Len(cw) < d + 1 THEN "IndexError"
    ELSE IF "hourly" \notin DOMAIN cw[d + 1] THEN "KeyError"
    ELSE IF "current" \notin DOMAIN cw[d + 1] THEN "KeyError"
    ELSE IF cw[d + 1].hourly = <<>> THEN "ValueError"
    ELSE ""

\* city_result of one location from its slice cw of sorted_weather
CityResult(cw) ==
    IF cw = <<>> THEN Raised("IndexError")
    ELSE IF "daily" \notin DOMAIN cw[1] THEN Raised("KeyError")
    ELSE IF Len(cw[1].daily) < 6 THEN Raised("IndexError")
    ELSE LET bad == {d \in 1..5 : DayError(cw, d) # ""}
         IN  IF bad # {} THEN Raised(DayError(cw, SetMin(bad)))
             ELSE Value(
                 [day \in 1..6 |-> <<cw[1].daily[day].dt,
                                     cw[1].daily[day].temp.min,
                                     cw[1].daily[day].temp.max>>]
                 \o [d \in 1..5 |->
                       LET temp == {cw[d + 1].hourly[h].temp : h \in DOMAIN cw[d + 1].hourly}
                       IN  <<cw[d + 1].current.dt, SetMin(temp), SetMax(temp)>>])

\* sorted_weather[num * 6 : (num + 1) * 6], num counted from 1
CitySlice(sw, num) == SubSeq(sw, 6 * (num - 1) + 1, Min(6 * num, Len(sw)))

\* OpenWeather.sort_results: location (its index) -> sorted list of triples
OpenWeatherSortResults(tbl, urls, locs) ==
    LET found == LookupAll(tbl, urls)
    IN  IF found.state = "raised" THEN found
        ELSE LET city(num) == CityResult(CitySlice(found.value, num))
                 bad == {num \in DOMAIN locs : city(num).state = "raised"}
             IN  IF bad # {} THEN city(SetMin(bad))
                 ELSE Value([num \in DOMAIN locs |-> SortByDt(city(num).value)])

\* OpenWeather(locations, threads) up to the return of AsyncGetAPI(...).results:
\* every url has a body of its kind, but for at most one url that has no entry
InitOpenWeather ==
    /\ caller = "OpenWeather"
    /\ locations \in LocationLists(MaxLocations)
    /\ urls_list = OpenWeatherUrls(locations)
    /\ \E missing \in {{}} \cup {{u} : u \in Range(urls_list)} :
       \E fc \in [Range(locations) -> Forecasts] :
       \E hist \in [Range(locations) \X (1..5) -> Historicals] :
           table = DictOf(Reverse(urls_list), missing,
                          [u \in Range(urls_list) |->
                              IF u[1] = "onecall" THEN fc[u[2]]
                              ELSE hist[<<u[2], u[3]>>]])
    /\ sorted_results = NotSet

\* OpenWeather.run: self.results = self.sort_results(...)
OpenWeatherRun ==
    /\ caller = "OpenWeather"
    /\ sorted_results = NotSet
    /\ sorted_results' = OpenWeatherSortResults(table, urls_list, locations)
    /\ UNCHANGED <<fetch, calls, prev_results, caller, locations, urls_list, table,
                   cities, max_temp, all_hotels, hotels_counter>>

InitCallers ==
    /\ FetchIdle
    /\ calls = 1
    /\ prev_results = <<>>
    /\ cities = <<>>
    /\ max_temp = NotSet
    /\ all_hotels = <<>>
    /\ hotels_counter = NotSet
    /\ (InitPickPoint \/ InitOpenWeather)

NextCallers == PickPointInit \/ OpenWeatherRun

SpecCallers == InitCallers /\ [][NextCallers]_vars

\* ---- WeatherAnalysis: the hottest day ----------------------------------------

MaxCities == 2

MaxDays == 2

\* temperatures, in whole degrees
Temps == {0 - 5, 30}

CityNames == <<"Houston", "London", "Paris">>

\* City.weather: (dt, min, max) triples in the order of their timestamps
WeatherLists ==
    UNION {{[d \in 1..n |-> <<d, t[d][1], t[d][2]>>] :
               t \in [1..n -> {p \in Temps \X Temps : p[1] <= p[2]}]} : n \in 0..MaxDays}

\* self._cities
CityLists ==
    UNION {{[i \in 1..n |-> [name |-> CityNames[i], weather |-> w[i]]] :
               w \in [1..n -> WeatherLists]} : n \in 0..MaxCities}

\* TempData(): temp = float("-inf"), date = None, city = None
NegInf == <<>>

TempData == [temp |-> NegInf, date |-> None, city |-> None]

\* city_max_temp > temp.temp
Hotter(x, t) == t = NegInf \/ x > t[1]

\* sorted(city.weather, key=lambda x: x[2]): the stable sort by the max field
RECURSIVE SortByMaxTemp(_)
SortByMaxTemp(s) ==
    IF s = <<>> THEN <<>>
    ELSE LET r == SortByMaxTemp(SubSeq(s, 1, Len(s) - 1))
             x == s[Len(s)]
             n == Cardinality({i \in DOMAIN r : r[i][3] <= x[3]})
         IN  SubSeq(r, 1, n) \o <<x>> \o SubSeq(r, n + 1, Len(r))

\* the timestamp of the first triple of the sorted list
DateOfColdest(weather) == SortByMaxTemp(weather)[1][1]

\* sorted(city.weather, key=lambda x: x[2])[-1][0]
DateOfHottest(weather) == SortByMaxTemp(weather)[Len(weather)][1]

\* the loop of _find_max_temp from city i on, temp being the TempData so far
RECURSIVE FindMaxTempFrom(_, _, _)
FindMaxTempFrom(cs, i, temp) ==
    IF i > Len(cs) THEN Value(temp)
    ELSE IF cs[i].weather = <<>> THEN Raised("ValueError")
    ELSE LET city_max_temp == SetMax({cs[i].weather[d][3] : d \in DOMAIN cs[i].weather})
         IN  IF Hotter(city_max_temp, temp.temp)
             THEN FindMaxTempFrom(cs, i + 1,
                                  [temp |-> <<city_max_temp>>,
                                   date |-> <<DateOfHottest(cs[i].weather)>>,
                                   city |-> <<cs[i].name>>])
             ELSE FindMaxTempFrom(cs, i + 1, temp)

InitAnalysis ==
    /\ FetchIdle
    /\ calls = 1
    /\ prev_results = <<>>
    /\ caller = "WeatherAnalysis"
    /\ locations = <<>>
    /\ urls_list = <<>>
    /\ table = <<>>
    /\ sorted_results = NotSet
    /\ cities \in CityLists
    /\ max_temp = NotSet
    /\ all_hotels = <<>>
    /\ hotels_counter = NotSet

\* WeatherAnalysis._find_max_temp
FindMaxTemp ==
    /\ caller = "WeatherAnalysis"
    /\ max_temp = NotSet
    /\ max_temp' = FindMaxTempFrom(cities, 1, TempData)
    /\ UNCHANGED <<fetch, calls, prev_results, caller, locations, urls_list, table,
                   sorted_results, cities, all_hotels, hotels_counter>>

NextAnalysis == FindMaxTemp

SpecAnalysis == InitAnalysis /\ [][NextAnalysis]_vars

\* ---- WeatherAnalysis: the city with most hotels of each country ---------------

MaxHotels == 3

Countries == {"FR", "US"}

CityOfHotel == {"Paris", "Marseille"}

\* coordinates of hotels, in degrees
Latitudes == {2, 8}

\* the rows of a hotels DataFrame: Country, City, Latitude, Longitude
HotelRows ==
    {[Country |-> c, City |-> n, Latitude |-> la, Longitude |-> la + 2] :
        c \in Countries, n \in CityOfHotel, la \in Latitudes}

\* counter[key] += 1 on a dict in insertion order
Increment(counter, key) ==
    IF DictHas(counter, key)
    THEN [i \in DOMAIN counter |->
             IF counter[i][1] = key THEN <<key, counter[i][2] + 1>> ELSE counter[i]]
    ELSE Append(counter, <<key, 1>>)

\* self._hotels_counter[row["Country"]][row["City"]] += 1
CountRow(hc, row) ==
    IF DictHas(hc, row.Country)
    THEN [i \in DOMAIN hc |->
             IF hc[i][1] = row.Country
             THEN <<row.Country, Increment(hc[i][2], row.City)>>
             ELSE hc[i]]
    ELSE Append(hc, <<row.Country, Increment(<<>>, row.City)>>)

\* the loop of _count_hotels_in_cities over the rows
RECURSIVE CountHotels(_)
CountHotels(rows) ==
    IF rows = <<>> THEN <<>>
    ELSE CountRow(CountHotels(SubSeq(rows, 1, Len(rows) - 1)), rows[Len(rows)])

\* cities.most_common(1)[0][0]: the first key, in insertion order, of those
\* with the greatest count
MostCommon(counter) ==
    LET top == SetMax({counter[i][2] : i \in DOMAIN counter})
    IN  counter[SetMin({i \in DOMAIN counter : counter[i][2] = top})][1]

\* all_hotels[all_hotels["City"] == city]
HotelsOfCity(rows, country, city) == SelectSeq(rows, LAMBDA r : r.City = city)

\* (column.min() + column.max()) / 2
Centre(S) == (SetMin(S) + SetMax(S)) \div 2

\* City(name, country, hotels) with __post_init__: the centre of its hotels
City(name, country, hotels) ==
    [name |-> name, country |-> country, hotels |-> hotels,
     latitude |-> Centre({hotels[i].Latitude : i \in DOMAIN hotels}),
     longitude |-> Centre({hotels[i].Longitude : i \in DOMAIN hotels})]

InitHotels ==
    /\ FetchIdle
    /\ calls = 1
    /\ prev_results = <<>>
    /\ caller = "WeatherAnalysis"
    /\ locations = <<>>
    /\ urls_list = <<>>
    /\ table = <<>>
    /\ sorted_results = NotSet
    /\ cities = <<>>
    /\ max_temp = NotSet
    /\ all_hotels \in SeqsUpTo(HotelRows, MaxHotels)
    /\ hotels_counter = NotSet

\* WeatherAnalysis._count_hotels_in_cities
CountHotelsInCities ==
    /\ caller = "WeatherAnalysis"
    /\ hotels_counter = NotSet
    /\ hotels_counter' = Value(CountHotels(all_hotels))
    /\ UNCHANGED <<fetch, calls, prev_results, caller, locations, urls_list, table,
                   sorted_results, cities, max_temp, all_hotels>>

\* WeatherAnalysis._build_cities_with_most_hotels
BuildCitiesWithMostHotels ==
    /\ caller = "WeatherAnalysis"
    /\ hotels_counter # NotSet
    /\ cities = <<>>
    /\ cities' = [k \in DOMAIN hotels_counter.value |->
                     City(MostCommon(hotels_counter.value[k][2]),
                          hotels_counter.value[k][1],
                          HotelsOfCity(all_hotels, hotels_counter.value[k][1],
                                       MostCommon(hotels_counter.value[k][2])))]
    /\ UNCHANGED <<fetch, calls, prev_results, caller, locations, urls_list, table,
                   sorted_results, max_temp, all_hotels, hotels_counter>>

NextHotels == CountHotelsInCities \/ BuildCitiesWithMostHotels

SpecHotels == InitHotels /\ [][NextHotels]_vars

\* a transport that may also answer with a server-error response
NextHttp ==
    \/ Next
    \/ \E w \in WorkerIds : RespondError(w)

SpecHttp == Init /\ [][NextHttp]_vars

\* a url_list with a malformed descriptor
InitBad == InitOn(BadLists(MaxUrls))

SpecBad == InitBad /\ [][Next]_vars

\* the workers main awaits under fair scheduling of the event loop
MainStep == MainStart \/ MainCancel \/ MainReturn

WorkerStep(w) == WorkerStart(w) \/ Respond(w) \/ Fail(w) \/ Wake(w) \/ WorkerCancelled(w)

\* every attempt ends (it answers, or raises, at the latest by its timeout),
\* every sleep ends and the event loop runs every task that can run
FairSpec == Spec /\ WF_vars(MainStep) /\ \A w \in WorkerIds : WF_vars(WorkerStep(w))

\* ---- vocabulary of the claims -----------------------------------------------
Occ == DOMAIN url_list

Terminal == {"Succeeded", "Exhausted"}

InFlight == {w \in DOMAIN workers : workers[w].pc = "request"}

Returned == main_pc = "done"

QuotaSet == max_requests # None

\* ---- C1 ---------------------------------------------------------------------
\* C1 as stated: once the call has returned, the result table has an entry for
\* every descriptor of the input list, also for one whose 10 attempts all failed.
C1_EveryDescriptorHasEntry ==
    Returned => \A i \in Occ : url_list[i] \in DOMAIN results

\* C1 amended: once the call has returned, the result table has an entry for a
\* descriptor exactly when an attempt of one of its occurrences succeeded; a
\* descriptor whose attempts all failed has no entry.
C1_EntryIffSucceeded ==
    Returned =>
        \A d \in Range(url_list) :
            d \in DOMAIN results <=>
                \E i \in Occ : url_list[i] = d /\ status[i] = "Succeeded"

C1_Witness ==
    /\ Returned
    /\ \E i, j \in Occ :
          /\ status[i] = "Succeeded" /\ url_list[i] \in DOMAIN results
          /\ status[j] = "Exhausted" /\ url_list[j] \notin DOMAIN results

\* ---- C2 ---------------------------------------------------------------------
\* C2: in every state the number of attempts in flight is at most
\* min(max_workers, len(url_list)).
C2_InFlightAtMostMin ==
    Cardinality(InFlight) <= Min(max_workers, Len(url_list))

\* ---- C3 ---------------------------------------------------------------------
\* C3: the number of workers main spawns is min(max_workers, len(url_list)) for a
\* non-empty list and zero for the empty list.
C3_WorkersSpawned ==
    main_pc # "start" =>
        Cardinality(DOMAIN workers) =
            IF Len(url_list) = 0 THEN 0 ELSE Min(max_workers, Len(url_list))

\* ---- C4 ---------------------------------------------------------------------
\* C4: with a quota K >= 1 the counter stays within 0..K and at most K attempts
\* are issued since the last pause/reset (or since the start of the call).
C4_CounterWithinQuota ==
    QuotaSet =>
        /\ requests_count \in 0..max_requests[1]
        /\ window \in 0..max_requests[1]

C4_Witness ==
    /\ max_requests = <<2>>
    /\ requests_count = 2
    /\ pauses >= 2
    /\ Cardinality(InFlight) = 2
    /\ \E i \in Occ : attempts[i] >= 3

\* ---- C5 ---------------------------------------------------------------------
\* C5: no occurrence gets more than 10 attempts; the step in which attempt k of
\* an occurrence succeeds stores attempt k's payload under its url and makes it
\* Succeeded; a Succeeded occurrence gets no further attempt; an occurrence is
\* Exhausted only after 10 attempts, and its own attempts stored nothing.
C5_TriesBounded ==
    \A i \in Occ :
        /\ attempts[i] \in 0..MaxTries
        /\ status[i] = "Succeeded" => attempts[i] \in 1..MaxTries
        /\ status[i] = "Exhausted" => attempts[i] = MaxTries
        /\ (status[i] = "Exhausted" /\ \A j \in Occ \ {i} : url_list[j] # url_list[i])
               => url_list[i] \notin DOMAIN results

C5_AttemptStep ==
    \A i \in Occ :
        /\ (status[i] = "Attempting" /\ status'[i] = "Succeeded") =>
               /\ url_list[i] \in DOMAIN results'
               /\ results'[url_list[i]] = <<url_list[i], attempts[i]>>
               /\ attempts'[i] = attempts[i]
        /\ status[i] \in Terminal =>
               /\ attempts'[i] = attempts[i]
               /\ status'[i] = status[i]
        /\ status'[i] = "Exhausted" => attempts[i] = MaxTries

\* C5: the bound on the tries holds in every state and every step obeys the
\* retry policy.
C5_RetryPolicy == [](C5_TriesBounded) /\ [][C5_AttemptStep]_vars

C5_Witness ==
    /\ Returned
    /\ \E i, j \in Occ :
          /\ status[i] = "Succeeded"
          /\ attempts[i] = MaxTries
          /\ results[url_list[i]] = <<url_list[i], MaxTries>>
          /\ status[j] = "Exhausted"

\* ---- C6 ---------------------------------------------------------------------
\* C6: with a transport whose attempts all succeed, the table the call returns
\* maps every distinct descriptor d of the input to its payload and has no other
\* entry, whatever the worker limit, the quota and the interleaving.
C6_TableIsPayloadMap ==
    Returned => results = [d \in Range(url_list) |-> <<d, 1>>]

C6_Witness ==
    /\ Returned
    /\ Len(url_list) = 3
    /\ Cardinality(DOMAIN results) = 2
    /\ max_workers = 2
    /\ QuotaSet
    /\ pauses >= 1

\* ---- C7 ---------------------------------------------------------------------
\* C7: under fair scheduling the call eventually returns, for every list (the
\* empty one included), worker limit, quota and pattern of failures.
C7_FetchReturns == <>Returned

C7_Witness ==
    /\ Returned
    /\ Len(url_list) = 2
    /\ pauses >= 1
    /\ \A i \in Occ : status[i] = "Exhausted"

\* ---- C8 ---------------------------------------------------------------------
\* C8: when the call has returned the queue is empty, every occurrence has been
\* dequeued and is Succeeded or Exhausted, and no worker is inside an attempt
\* or a backoff sleep.
C8_ReturnsOnlyWhenDrained ==
    Returned =>
        /\ queue = <<>>
        /\ unfinished = 0
        /\ \A i \in Occ : status[i] \in Terminal
        /\ \A w \in DOMAIN workers : workers[w].pc \notin {"request", "sleep"}

C8_Witness ==
    /\ Returned
    /\ Len(url_list) = 2
    /\ status[1] = "Exhausted"
    /\ status[2] = "Succeeded"
    /\ attempts[2] > 1

\* ---- C9 ---------------------------------------------------------------------
\* C9 as stated: every occurrence of a repeated descriptor has a result slot of
\* its own: a Succeeded occurrence keeps its own payload in the table and an
\* Exhausted occurrence has no entry, whatever the other occurrences did.
C9_IndependentSlots ==
    \A i \in Occ :
        /\ status[i] = "Succeeded" =>
               /\ url_list[i] \in DOMAIN results
               /\ results[url_list[i]] = <<url_list[i], attempts[i]>>
        /\ status[i] = "Exhausted" => url_list[i] \notin DOMAIN results

\* C9 amended: the occurrences of a repeated descriptor share the one slot keyed
\* by the url: the table has at most one entry per distinct descriptor, every
\* successful occurrence overwrites that entry with its own payload and leaves
\* the other entries alone, and no other step changes the table.
C9_OneSlotPerUrl ==
    /\ DOMAIN results \subseteq Range(url_list)
    /\ \A d \in DOMAIN results :
          \E i \in Occ : /\ url_list[i] = d
                          /\ status[i] = "Succeeded"
                          /\ results[d] = <<d, attempts[i]>>

C9_SuccessOverwrites ==
    /\ \A i \in Occ :
          (status[i] # "Succeeded" /\ status'[i] = "Succeeded") =>
              /\ DOMAIN results' = DOMAIN results \cup {url_list[i]}
              /\ results'[url_list[i]] = <<url_list[i], attempts[i]>>
              /\ \A d \in DOMAIN results \ {url_list[i]} : results'[d] = results[d]
    /\ (\A i \in Occ : status'[i] = "Succeeded" => status[i] = "Succeeded")
          => results' = results

\* C9 amended: one slot per url in every state, and every step writes the table
\* only by the overwrite of a successful occurrence.
C9_SharedSlot == [](C9_OneSlotPerUrl) /\ [][C9_SuccessOverwrites]_vars

C9_Witness ==
    /\ Returned
    /\ \E i, j \in Occ :
          /\ i < j
          /\ url_list[i] = url_list[j]
          /\ status[i] = "Succeeded"
          /\ status[j] = "Succeeded"
          /\ attempts[i] > attempts[j]
          /\ results[url_list[i]] = <<url_list[i], attempts[i]>>

\* ---- C10 --------------------------------------------------------------------
\* C10: a failed attempt is recovered inside the fetcher: the worker that saw
\* it stays alive in its backoff sleep on the same url and try, main and the
\* table are untouched; after the sleep the worker issues the next attempt of
\* that url or, after the 10th failure, marks it done and goes on to the next
\* url or waits on the empty queue; no worker task ever ends by an exception;
\* and after a failure the call still returns.
C10_WorkersAlive ==
    /\ main_pc \in {"start", "join", "gather", "done"}
    /\ \A w \in DOMAIN workers :
          workers[w].pc \in {"new", "get", "request", "sleep", "cancelled"}

C10_FailureStep ==
    \A w \in DOMAIN workers :
        /\ (workers[w].pc = "request" /\ status'[workers[w].item] = "Retry") =>
               /\ workers'[w] = [workers[w] EXCEPT !.pc = "sleep"]
               /\ main_pc' = main_pc
               /\ results' = results
               /\ unfinished' = unfinished
        /\ (workers[w].pc = "sleep" /\ workers'[w] # workers[w]) =>
               \/ /\ workers[w].tries + 1 < MaxTries
                  /\ workers'[w] = [workers[w] EXCEPT !.pc = "request", !.tries = @ + 1]
                  /\ unfinished' = unfinished
               \/ /\ workers[w].tries + 1 = MaxTries
                  /\ unfinished' = unfinished - 1
                  /\ IF queue = <<>>
                     THEN workers'[w].pc = "get"
                     ELSE /\ workers'[w].pc = "request"
                          /\ workers'[w].url = Head(queue)
                          /\ workers'[w].tries = 0

\* C10: workers stay alive in every state, every failure step and every step
\* after a backoff is a local recovery, and a call that saw a failure returns.
C10_FailureRecoveredLocally ==
    /\ [](C10_WorkersAlive)
    /\ [][C10_FailureStep]_vars
    /\ []((\E i \in Occ : status[i] = "Retry") => <>Returned)

C10_Witness ==
    /\ Len(url_list) = 2
    /\ status[1] = "Exhausted"
    /\ workers[1].pc = "get"
    /\ workers[2].pc = "request"
    /\ workers[2].item = 2
    /\ workers[2].tries > 0

\* ---- C11 --------------------------------------------------------------------
\* C11: an attempt answered with a server-error response is a failed attempt:
\* its body is never stored in the result table as the payload of the url (the
\* url is retried instead).
C11_ErrorBodyNotStored ==
    \A d \in DOMAIN results : ~IsErrorBody(results[d])

\* ---- C12 --------------------------------------------------------------------
\* C12: a pause uses up no try: the try number of a worker is always the number
\* of attempts issued for its url minus one, however many pauses there were.
C12_TriesCountAttempts ==
    \A w \in DOMAIN workers :
        workers[w].pc \in {"request", "sleep"} =>
            /\ workers[w].item \in Occ
            /\ attempts[workers[w].item] = workers[w].tries + 1

\* C12: a step with a pause resets the counter and issues the attempt it
\* stood before (the counter is 1 after it); an occurrence is marked for retry
\* only by the failure of its attempt, in a step without pause, and becomes
\* Exhausted only from there after 10 attempts; an attempt ends only as
\* Succeeded or as a failure.
C12_PauseStep ==
    /\ pauses' # pauses =>
          /\ pauses' = pauses + 1
          /\ max_requests = <<requests_count>>
          /\ requests_count' = 1
          /\ \E i \in Occ :
                /\ status'[i] = "Attempting"
                /\ attempts'[i] = attempts[i] + 1
                /\ \A j \in Occ \ {i} : attempts'[j] = attempts[j]
    /\ \A i \in Occ :
          /\ (status'[i] = "Retry" /\ status[i] # "Retry") =>
                 (status[i] = "Attempting" /\ pauses' = pauses)
          /\ (status'[i] = "Exhausted" /\ status[i] # "Exhausted") =>
                 (status[i] = "Retry" /\ attempts[i] = MaxTries)
          /\ (status[i] = "Attempting" /\ status'[i] # "Attempting") =>
                 status'[i] \in {"Succeeded", "Retry"}

\* C12: a rate-limit pause is flow control only, in every state and step.
C12_PauseIsFlowControl == [](C12_TriesCountAttempts) /\ [][C12_PauseStep]_vars

C12_Witness ==
    /\ Returned
    /\ max_requests = <<1>>
    /\ pauses >= MaxTries
    /\ \E i \in Occ : status[i] = "Succeeded" /\ attempts[i] = MaxTries

\* ---- C13 --------------------------------------------------------------------
\* C13 as stated: with a malformed descriptor in the list the call fails before
\* any worker is started: no worker is spawned and no attempt is issued.
C13_MalformedFailsFast ==
    BadUrl \in Range(url_list) =>
        /\ workers = <<>>
        /\ \A i \in Occ : attempts[i] = 0

\* C13 amended: a malformed descriptor does not fail the call: the workers are
\* spawned as for any list, every failure of the malformed descriptor leaves
\* its worker alive in the backoff sleep, nothing is stored for it, and when
\* the call has returned it is Exhausted after exactly 10 attempts while the
\* other descriptors are Succeeded or Exhausted as usual.
C13_MalformedIsRetried ==
    /\ main_pc \in {"start", "join", "gather", "done"}
    /\ main_pc # "start" => Cardinality(DOMAIN workers) = max_treads
    /\ BadUrl \notin DOMAIN results
    /\ \A i \in Occ :
          url_list[i] = BadUrl =>
              /\ status[i] # "Succeeded"
              /\ status[i] = "Retry" =>
                     \E w \in DOMAIN workers :
                         workers[w].item = i /\ workers[w].pc = "sleep"
    /\ Returned =>
          \A i \in Occ :
              IF url_list[i] = BadUrl
              THEN status[i] = "Exhausted" /\ attempts[i] = MaxTries
              ELSE status[i] \in Terminal

C13_Witness ==
    /\ Returned
    /\ url_list = <<BadUrl, "url1">>
    /\ status[2] = "Succeeded"
    /\ DOMAIN results = {"url1"}

\* ---- C14 --------------------------------------------------------------------
\* C14: when a url of urls_list has no entry in the table, building the results
\* of PickPoint or OpenWeather raises KeyError: no results value is produced,
\* neither a partial nor a shifted one.
C14_MissingEntryRaises ==
    (/\ sorted_results # NotSet
     /\ \E i \in DOMAIN urls_list : ~DictHas(table, urls_list[i]))
        => sorted_results = Raised("KeyError")

C14_Witness ==
    /\ caller = "OpenWeather"
    /\ Len(locations) = 2
    /\ ~DictHas(table, urls_list[9])
    /\ \A i \in DOMAIN urls_list : i # 9 => DictHas(table, urls_list[i])
    /\ sorted_results = Raised("KeyError")

\* ---- C18 --------------------------------------------------------------------
\* C18: when every url of urls_list has an entry with a display_name,
\* PickPoint.sort_results returns a list with one element per url of urls_list
\* whose i-th element is the display_name of the entry of the i-th url,
\* whatever the order of the keys of the table.
C18_AddressesInUrlOrder ==
    (/\ caller = "PickPoint"
     /\ sorted_results # NotSet
     /\ \A i \in DOMAIN urls_list :
           /\ DictHas(table, urls_list[i])
           /\ "display_name" \in DOMAIN DictGet(table, urls_list[i]))
        => /\ sorted_results.state = "set"
           /\ Len(sorted_results.value) = Len(urls_list)
           /\ \A i \in DOMAIN urls_list :
                 \E j \in DOMAIN table :
                     /\ table[j][1] = urls_list[i]
                     /\ sorted_results.value[i] = table[j][2].display_name

C18_Witness ==
    /\ caller = "PickPoint"
    /\ Len(urls_list) = 2
    /\ DictKeys(table) = Reverse(urls_list)
    /\ sorted_results = Value(<<"data1", "data2">>)

\* ---- C19 --------------------------------------------------------------------
\* the 11 triples of the location number num (from 1): 6 from the first 6 daily
\* entries of the body of its first url, one from each of its 5 further urls
C19_Triples(num) ==
    LET body(k) == DictGet(table, urls_list[6 * (num - 1) + k])
    IN  {<<body(1).daily[d].dt, body(1).daily[d].temp.min, body(1).daily[d].temp.max>> :
            d \in 1..6}
        \cup
        {<<body(k).current.dt,
           SetMin({body(k).hourly[h].temp : h \in DOMAIN body(k).hourly}),
           SetMax({body(k).hourly[h].temp : h \in DOMAIN body(k).hourly})>> :
            k \in 2..6}

C19_Count(num, x) ==
    LET body(k) == DictGet(table, urls_list[6 * (num - 1) + k])
    IN  Cardinality({d \in 1..6 :
            x = <<body(1).daily[d].dt, body(1).daily[d].temp.min, body(1).daily[d].temp.max>>})
        + Cardinality({k \in 2..6 :
            x = <<body(k).current.dt,
                  SetMin({body(k).hourly[h].temp : h \in DOMAIN body(k).hourly}),
                  SetMax({body(k).hourly[h].temp : h \in DOMAIN body(k).hourly})>>})

\* C19: when every url has an entry, OpenWeather.sort_results maps the location
\* at index i to exactly 11 triples, which are the 6 daily triples of the first
\* of its six responses and one (current.dt, min hourly, max hourly) triple of
\* each of the 5 others, each as often as it is built, in non-decreasing order
\* of the timestamp.
C19_ElevenSortedTriples ==
    (/\ caller = "OpenWeather"
     /\ sorted_results # NotSet
     /\ \A i \in DOMAIN urls_list : DictHas(table, urls_list[i]))
        => /\ sorted_results.state = "set"
           /\ DOMAIN sorted_results.value = DOMAIN locations
           /\ \A num \in DOMAIN locations :
                 LET out == sorted_results.value[num]
                 IN  /\ Len(out) = 11
                     /\ Range(out) = C19_Triples(num)
                     /\ \A x \in Range(out) :
                           Cardinality({j \in DOMAIN out : out[j] = x}) = C19_Count(num, x)
                     /\ \A j \in 1..10 : out[j][1] <= out[j + 1][1]

C19_Witness ==
    /\ caller = "OpenWeather"
    /\ Len(locations) = 2
    /\ locations[1] # locations[2]
    /\ sorted_results.state = "set"
    /\ sorted_results.value[1] # sorted_results.value[2]
    /\ \E j \in 1..10 : sorted_results.value[2][j][1] = sorted_results.value[2][j + 1][1]
    /\ DictGet(table, urls_list[7]).daily[1].dt > DictGet(table, urls_list[7]).daily[2].dt

\* ---- C15 --------------------------------------------------------------------
\* C15: a call repeated with the same arguments and a transport whose attempts
\* all succeed starts with the counter at 0, an empty table and no pause or
\* attempt counted, and returns a table equal to the one of the call before.
C15_RepeatedCallIsFresh ==
    calls > 1 =>
        /\ main_pc = "start" =>
               /\ requests_count = 0
               /\ results = <<>>
               /\ window = 0
               /\ \A i \in Occ : attempts[i] = 0
        /\ main_pc = "join" => requests_count = window
        /\ Returned => results = prev_results

C15_Witness ==
    /\ calls = 2
    /\ Returned
    /\ Len(url_list) = 3
    /\ Cardinality(DOMAIN results) = 2
    /\ results = prev_results
    /\ max_requests = <<2>>
    /\ requests_count = 1

\* ---- C16 --------------------------------------------------------------------
\* C16 as stated: with a quota of 2, 5 urls and attempts that all succeed, the
\* call has paused exactly 3 times when it returns.
C16_ThreePauses == Returned => pauses = 3

\* C16 amended: with a quota of 2, 5 urls and attempts that all succeed, the
\* call has paused exactly 2 times when it returns (before the 3rd and before
\* the 5th attempt), for every worker limit and interleaving.
C16_TwoPauses ==
    /\ pauses <= 2
    /\ Returned => pauses = 2

C16_Witness ==
    /\ Returned
    /\ Len(url_list) = 5
    /\ max_requests = <<2>>
    /\ pauses = 2
    /\ requests_count = 1

\* ---- C17 --------------------------------------------------------------------
\* C17: no worker outlives the call: when main has returned, every worker task
\* that was spawned has been cancelled and has ended, and none is waiting on
\* the queue, on a response or in a sleep.
C17_NoWorkerOutlivesCall ==
    Returned =>
        /\ DOMAIN workers = 1..max_treads
        /\ \A w \in DOMAIN workers :
               /\ workers[w].pc = "cancelled"
               /\ workers[w] = IdleWorker("cancelled")

C17_Witness ==
    /\ Returned
    /\ Cardinality(DOMAIN workers) = 2
    /\ Len(url_list) = 2
    /\ \A w \in DOMAIN workers : workers[w].pc = "cancelled"
    /\ \E i \in Occ : attempts[i] = MaxTries

\* ---- C20 --------------------------------------------------------------------
\* the max-temperature fields of all days of all cities
AllMaxTemps ==
    UNION {{cities[i].weather[d][3] : d \in DOMAIN cities[i].weather} : i \in DOMAIN cities}

\* C20: for a non-empty list of cities, each with a non-empty weather list,
\* _find_max_temp returns a TempData whose temp is the maximum of the max field
\* over all days of all cities, whose city is a city that attains it, and whose
\* date is the timestamp of a day of that city with that max temperature.
C20_HottestDayFound ==
    (/\ max_temp # NotSet
     /\ cities # <<>>
     /\ \A i \in DOMAIN cities : cities[i].weather # <<>>)
    => /\ max_temp.state = "set"
       /\ max_temp.value.temp = <<SetMax(AllMaxTemps)>>
       /\ \E i \in DOMAIN cities :
              /\ max_temp.value.city = <<cities[i].name>>
              /\ \E d \in DOMAIN cities[i].weather :
                     /\ cities[i].weather[d][3] = SetMax(AllMaxTemps)
                     /\ max_temp.value.date = <<cities[i].weather[d][1]>>

C20_Witness ==
    /\ Len(cities) = 2
    /\ cities[1].weather = <<<<1, 0 - 5, 0 - 5>>, <<2, 0 - 5, 0 - 5>>>>
    /\ cities[2].weather = <<<<1, 0 - 5, 30>>, <<2, 0 - 5, 0 - 5>>>>
    /\ max_temp = Value([temp |-> <<30>>, date |-> <<1>>, city |-> <<"London">>])

\* ---- C21 --------------------------------------------------------------------
RECURSIVE SumSeq(_)
SumSeq(s) == IF s = <<>> THEN 0 ELSE s[Len(s)] + SumSeq(SubSeq(s, 1, Len(s) - 1))

\* worker w alone has run in this step
OnlyWorkerRan(w) ==
    /\ w \in DOMAIN workers
    /\ DOMAIN workers' = DOMAIN workers
    /\ \A v \in DOMAIN workers \ {w} : workers'[v] = workers[v]
    /\ main_pc' = main_pc

C21_GateStep ==
    (requests_count' # requests_count \/ attempts' # attempts) =>
        /\ requests_count' = (IF max_requests = <<requests_count>> THEN 1
                              ELSE requests_count + 1)
        /\ SumSeq(attempts') = SumSeq(attempts) + 1
        /\ \E w \in DOMAIN workers : OnlyWorkerRan(w) /\ workers'[w].pc = "request"

\* C21: the quota test, the optional pause with the reset to zero, and the
\* increment are one atomic step: every step that touches requests_count or
\* issues an attempt is the step of one worker, in which no other worker and
\* not main moves, which takes the counter from its value at the test to its
\* value after the increment and issues exactly one attempt.
C21_GateIsAtomic == [][C21_GateStep]_vars

C21_Witness ==
    /\ max_requests = <<1>>
    /\ pauses = 1
    /\ requests_count = 1
    /\ Cardinality({w \in DOMAIN workers : workers[w].pc = "request"}) = 2

\* ---- C22 --------------------------------------------------------------------
C22_PauseStep ==
    pauses' # pauses =>
        /\ pauses' = pauses + 1
        /\ max_requests = <<requests_count>>
        /\ requests_count' = 1
        /\ \E w \in DOMAIN workers :
               /\ OnlyWorkerRan(w)
               /\ workers'[w].pc = "request"
               /\ DOMAIN results' \subseteq DOMAIN results \cup {workers[w].url}
               /\ \A d \in DOMAIN results \ {workers[w].url} : results'[d] = results[d]
               /\ \A i \in Occ : status'[i] # status[i] =>
                      i \in {workers[w].item, workers'[w].item}

\* C22: a rate-limit pause stalls the whole fetch: the step in which a worker
\* pauses begins with the counter at the quota and ends with the counter reset
\* and that worker's request issued, and in it no other worker dequeues, issues
\* an attempt, processes a response, writes a result or ends a backoff, and
\* main does not move.
C22_PauseStallsAll == [][C22_PauseStep]_vars

C22_Witness ==
    /\ pauses = 1
    /\ requests_count = 1
    /\ \E w, v \in DOMAIN workers :
           /\ workers[w].pc = "request"
           /\ workers[v].pc = "sleep"
           /\ attempts[workers[w].item] = 1

\* ---- C23 --------------------------------------------------------------------
C23_CountStep ==
    /\ SumSeq(attempts') = SumSeq(attempts) + 1 =>
           requests_count' = Gate(requests_count, max_requests)
    /\ SumSeq(attempts') # SumSeq(attempts) + 1 =>
           requests_count' = requests_count

\* the counter equals the attempts issued since the last reset
C23_CounterIsWindow == requests_count = window

\* C23: the counter is incremented exactly once per attempt, before the
\* attempt is issued and whatever its outcome: the counter equals the number
\* of attempts issued since the last reset (or the start of the call), and it
\* changes in exactly the steps that issue an attempt, retries included.
C23_EveryAttemptCounted == []C23_CounterIsWindow /\ [][C23_CountStep]_vars

C23_Witness ==
    /\ max_requests = None
    /\ requests_count = 3
    /\ SumSeq(attempts) = 3
    /\ \E i \in Occ : status[i] = "Retry" /\ attempts[i] = 2

\* ---- C24 --------------------------------------------------------------------
\* the number of items taken from the queue so far
Taken == Len(url_list) - Len(queue)

\* the workers that hold item i
Holders(i) == {w \in DOMAIN workers : workers[w].item = i}

C24_QueueInv ==
    /\ main_pc = "start" => workers = <<>>
    /\ main_pc # "start" =>
           /\ queue = SubSeq(url_list, Taken + 1, Len(url_list))
           /\ unfinished = Cardinality({i \in Occ : status[i] \notin Terminal})
           /\ \A i \in Occ :
                  \/ i > Taken /\ status[i] = "Pending" /\ attempts[i] = 0 /\ Holders(i) = {}
                  \/ i <= Taken /\ status[i] \in {"Attempting", "Retry"}
                                /\ Cardinality(Holders(i)) = 1
                  \/ i <= Taken /\ status[i] \in Terminal /\ Holders(i) = {}

C24_DequeueStep ==
    /\ (main_pc # "start" /\ queue' # queue) =>
           /\ queue' = Tail(queue)
           /\ \E w \in DOMAIN workers :
                  /\ workers'[w].item = Taken + 1
                  /\ workers'[w].url = Head(queue)
                  /\ workers'[w].tries = 0
                  /\ workers[w].pc = "new" \/ workers[w].pc = "request"
                                          \/ (workers[w].pc = "sleep" /\ ~MoreTries(workers[w].tries))
                  /\ workers[w].item # 0 =>
                         /\ status'[workers[w].item] \in Terminal
                         /\ unfinished' = unfinished - 1
    /\ \A w \in DOMAIN workers :
           (main_pc # "start" /\ workers[w].item # 0 /\ workers'[w].item # workers[w].item) =>
               /\ status'[workers[w].item] \in Terminal
               /\ status[workers[w].item] \notin Terminal
               /\ unfinished' = unfinished - 1

\* C24: the whole url_list is in the queue before a worker runs; the queue is
\* always the not yet taken tail of url_list, an item taken is held by exactly
\* one worker until it is Succeeded or Exhausted and is never queued again; and
\* a worker takes a new item only in the step in which its current item ends
\* its attempts and is marked done. When the call returns every item was taken.
C24_WorkDistribution ==
    /\ []C24_QueueInv
    /\ [][C24_DequeueStep]_vars
    /\ [](Returned => Taken = Len(url_list))

C24_Witness ==
    /\ Len(url_list) = 2
    /\ max_workers = 1
    /\ queue = <<>>
    /\ status[1] = "Exhausted"
    /\ workers[1].pc = "get"
    /\ workers[2].item = 2
    /\ workers[2].pc = "sleep"
    /\ unfinished = 1

\* ---- C25 --------------------------------------------------------------------
\* the entry of descriptor d in table res, or None
EntryOf(res, d) == IF d \in DOMAIN res THEN <<res[d]>> ELSE None

C25_TerminalStepAsStated ==
    \A i \in Occ :
        status[i] \in Terminal =>
            /\ status'[i] = status[i]
            /\ attempts'[i] = attempts[i]
            /\ EntryOf(results', url_list[i]) = EntryOf(results, url_list[i])

\* C25 as stated: a descriptor that is Succeeded or Exhausted stays so: no
\* further attempt is issued for it and its entry in the result table, or the
\* absence of one, never changes afterwards.
C25_TerminalIsFinal == [][C25_TerminalStepAsStated]_vars

C25_OccurrenceStep ==
    \A i \in Occ :
        /\ status[i] = "Pending" => status'[i] \in {"Pending", "Attempting"}
        /\ status[i] = "Attempting" => status'[i] \in {"Attempting", "Succeeded", "Retry"}
        /\ status[i] = "Retry" => status'[i] \in {"Retry", "Attempting", "Exhausted"}
        /\ status[i] \in Terminal =>
               /\ status'[i] = status[i]
               /\ attempts'[i] = attempts[i]
               /\ Holders(i) = {}
               /\ EntryOf(results', url_list[i]) # EntryOf(results, url_list[i]) =>
                      \E j \in Occ \ {i} :
                          /\ url_list[j] = url_list[i]
                          /\ status[j] = "Attempting"
                          /\ status'[j] = "Succeeded"

\* C25 amended: an occurrence of a descriptor in the list moves Pending ->
\* Attempting -> {Succeeded | Retry | Exhausted}, and once it is Succeeded or
\* Exhausted it stays so and no further attempt is issued for it; the entry of
\* its descriptor in the result table changes afterwards only when another
\* occurrence of the same descriptor succeeds, so it never changes for a
\* descriptor that occurs once in the list.
C25_OccurrenceIsFinal == [][C25_OccurrenceStep]_vars

C25_Witness ==
    /\ url_list = <<"url1", "url1">>
    /\ status[1] = "Exhausted"
    /\ status[2] = "Succeeded"
    /\ attempts[2] = 3
    /\ workers[1].pc = "get"
    /\ results = [d \in {"url1"} |-> Payload("url1", 3)]

\* ---- C26 --------------------------------------------------------------------
C26_TableInv ==
    \A d \in DOMAIN results :
        /\ d \in Range(url_list)
        /\ \E i \in Occ :
               /\ url_list[i] = d
               /\ status[i] = "Succeeded"
               /\ results[d] = Payload(d, attempts[i])

C26_WriteStep ==
    results' # results =>
        \E w \in DOMAIN workers :
            /\ workers[w].pc = "request"
            /\ status[workers[w].item] = "Attempting"
            /\ status'[workers[w].item] = "Succeeded"
            /\ DOMAIN results' = DOMAIN results \cup {workers[w].url}
            /\ results'[workers[w].url] = Payload(workers[w].url, workers[w].tries + 1)
            /\ \A d \in DOMAIN results \ {workers[w].url} : results'[d] = results[d]

\* C26: the result table is sound: every key is a descriptor of the input
\* list, the value under d is the decoded payload of a successful attempt on d,
\* and the table is written only by the step in which an attempt succeeds,
\* never by a failed attempt, a pause or an exhaustion.
C26_TableSound == []C26_TableInv /\ [][C26_WriteStep]_vars

\* ---- C27 --------------------------------------------------------------------
C27_CancelStep ==
    /\ (main_pc = "join" /\ main_pc' = "gather") =>
           /\ queue = <<>>
           /\ \A i \in Occ : status[i] \in Terminal
           /\ \A w \in DOMAIN workers : workers[w] = IdleWorker("get")
    /\ \A w \in DOMAIN workers :
           (workers[w].cancel /\ workers'[w] # workers[w]) =>
               workers'[w] = IdleWorker("cancelled")

C27_CancelInv ==
    /\ \A w \in DOMAIN workers :
           workers[w].cancel =>
               /\ workers[w].item = 0
               /\ workers[w].pc = "get" \/ (workers[w].pc = "new" /\ url_list = <<>>)
    /\ main_pc \in {"gather", "done"} =>
           /\ InFlight = {}
           /\ \A i \in Occ : status[i] \in Terminal

\* C27: cancellation never interrupts work: when main cancels the workers after
\* queue.join() was released, every worker is blocked in queue.get() on the
\* empty queue (for an empty url_list join does not block and the workers have
\* not run yet); no cancelled worker is in an attempt, a pause, a backoff or a
\* write, so every cancellation ends its task, none is swallowed by the except
\* clause, and every item is Succeeded or Exhausted before the teardown.
C27_CancelFindsWorkersIdle == []C27_CancelInv /\ [][C27_CancelStep]_vars

C27_Witness ==
    /\ main_pc = "gather"
    /\ Len(url_list) = 2
    /\ status[1] = "Exhausted"
    /\ results # <<>>
    /\ workers[1] = [IdleWorker("get") EXCEPT !.cancel = TRUE]
    /\ workers[2] = IdleWorker("cancelled")

\* ---- C28 --------------------------------------------------------------------
\* ceil(n / k)
CeilDiv(n, k) == (n + k - 1) \div k

\* the attempts issued so far, by all workers
Issued == SumSeq(attempts)

C28_PauseCount ==
    /\ ~QuotaSet => pauses = 0
    /\ QuotaSet =>
           /\ Issued = 0 => pauses = 0
           /\ Issued >= 1 => pauses = (Issued - 1) \div max_requests[1]
           /\ (Returned /\ Len(url_list) >= 1 /\ \A i \in Occ : attempts[i] = 1) =>
                  pauses = CeilDiv(Len(url_list), max_requests[1]) - 1

C28_PauseStep ==
    (QuotaSet /\ Issued' = Issued + 1) =>
        (pauses' = pauses + 1 <=> (Issued >= 1 /\ Issued % max_requests[1] = 0))

\* C28: with a quota K the number of pauses is floor((A - 1) / K) when A >= 1
\* attempts were issued, a pause preceding exactly the attempts number K + 1,
\* 2K + 1, ... in issue order; so a call on N >= 1 urls in which every attempt
\* succeeds returns after ceil(N / K) - 1 pauses, whatever the number of
\* workers and their interleaving. Without a quota there is no pause.
C28_PausesCountWindows == []C28_PauseCount /\ [][C28_PauseStep]_vars

C28_Witness ==
    /\ Returned
    /\ max_requests = <<2>>
    /\ Len(url_list) = 2
    /\ Issued = 2 * MaxTries
    /\ pauses = MaxTries - 1

\* ---- C29 --------------------------------------------------------------------
\* the rows whose Country and City are the given ones
HotelsOfCountryCity(rows, country, city) ==
    SelectSeq(rows, LAMBDA r : r.Country = country /\ r.City = city)

\* the number of rows of the country and the city
HotelCount(country, city) == Len(HotelsOfCountryCity(all_hotels, country, city))

\* C29: _build_cities_with_most_hotels makes exactly one City per country of
\* the hotel counter, a city with the highest hotel count of that country, and
\* the hotels of that City, from which its centre is computed, are exactly the
\* rows whose Country and City both match it, also when another country has a
\* city of the same name.
C29_OneCityPerCountry ==
    (hotels_counter # NotSet /\ (cities # <<>> \/ all_hotels = <<>>)) =>
        /\ Len(cities) = Len(hotels_counter.value)
        /\ {cities[k].country : k \in DOMAIN cities}
               = {all_hotels[i].Country : i \in DOMAIN all_hotels}
        /\ \A k, l \in DOMAIN cities : cities[k].country = cities[l].country => k = l
        /\ \A k \in DOMAIN cities :
               LET c == cities[k]
                   own == HotelsOfCountryCity(all_hotels, c.country, c.name)
               IN  /\ own # <<>>
                   /\ \A n \in CityOfHotel : HotelCount(c.country, n) <= Len(own)
                   /\ c.hotels = own
                   /\ c.latitude = Centre({own[i].Latitude : i \in DOMAIN own})
                   /\ c.longitude = Centre({own[i].Longitude : i \in DOMAIN own})
====
